---- MODULE Spec2Model ----
(***************************************************************************)
(* Model of meterelf's temporal aggregation engine                         *)
(* (src/meterelf/store/visualize_data.py, class DataGatherer).             *)
(*                                                                         *)
(* Time is counted in whole seconds since EPOCH; a timestamp's tzinfo is    *)
(* the fixed UTC offset tzoffset, in seconds.  Volumes (fv,                *)
(* dfv, sum, cum) are fixed-point numbers, UnitsPerLitre units per litre;  *)
(* a division rounds to the nearest unit, as a float division rounds to    *)
(* the nearest representable value.  An Optional[...] value is a set with  *)
(* at most one element ({} is None).                                       *)
(*                                                                         *)
(* The generators of the pipeline are demand driven: a stage pulls from    *)
(* the stage below only when it has nothing left to yield.  The queues     *)
(* q0..q3 hold what a stage has yielded and the next stage has not yet     *)
(* taken; each action is one resumption of one generator.                  *)
(***************************************************************************)
EXTENDS Integers, Sequences, FiniteSets, TLC

\* ------------------------------------------------------------------ bounds
UnitsPerLitre == 100000
MaxSamples == 3
MaxCumSamples == 5
MaxAmendSamples == 4
MaxEventSamples == 3
MaxEventNumber == 2
MaxRenderSamples == 3
MaxBarNumerator == 120
MaxFilenames == 3
MaxItems == 3
MaxBlockSize == 3
\* process_in_blocks' default block_size (200 in the source), scaled down to
\* the streams of at most MaxItems items
DefaultBlockSize == 2

\* ------------------------------------------------------- program constants
EPOCH == 0
MAX_SYNTHETIC_VALUES_TO_INSERT == 10
BIG_GAP_SECONDS == 30
LONG_GAP_SECONDS == 30

Second == 1
Minute == 60 * Second
Hour == 60 * Minute
Day == 24 * Hour

\* ---------------------------------------------------------------- optionals
None == {}
Some(x) == {x}
Get(o) == CHOOSE x \in o : TRUE
\* Python's `o or d` for an Optional number o
OrElse(o, d) == IF o = None \/ o = Some(0) THEN d ELSE Get(o)
\* the sequence of an Optional sequence, none when it is None
OrElseEmpty(o) == IF o = None THEN <<>> ELSE Get(o)

Abs(x) == IF x < 0 THEN 0 - x ELSE x
Min(a, b) == IF a <= b THEN a ELSE b
Max(a, b) == IF a >= b THEN a ELSE b
\* float division a / n, rounded to the nearest unit
DivRound(a, n) == (2 * a + n) \div (2 * n)

\* ------------------------------------------------------------ the calendar
\* datetime's proleptic Gregorian calendar: day number (days since
\* 1970-01-01) <-> (year, month, day)
\* (each step of the computation is an operator of its own, so that no
\* intermediate value is written out more than once)
CivilOfMonth(y, m, d) == [year |-> IF m <= 2 THEN y + 1 ELSE y, month |-> m, day |-> d]
CivilOfMp(y, doy, mp) ==
    CivilOfMonth(y, IF mp < 10 THEN mp + 3 ELSE mp - 9, doy - (153 * mp + 2) \div 5 + 1)
CivilOfDoy(y, doy) == CivilOfMp(y, doy, (5 * doy + 2) \div 153)
CivilOfYoe(era, doe, yoe) ==
    CivilOfDoy(yoe + era * 400, doe - (365 * yoe + yoe \div 4 - yoe \div 100))
CivilOfDoe(era, doe) ==
    CivilOfYoe(era, doe,
               (doe - doe \div 1460 + doe \div 36524 - doe \div 146096) \div 365)
CivilOfEra(z, era) == CivilOfDoe(era, z - era * 146097)
CivilOfShifted(z) == CivilOfEra(z, z \div 146097)
CivilFromDays(z0) == CivilOfShifted(z0 + 719468)

DaysOfYoe(era, yoe, doy) ==
    era * 146097 + (yoe * 365 + yoe \div 4 - yoe \div 100 + doy) - 719468
DaysOfEra(y, era, doy) == DaysOfYoe(era, y - era * 400, doy)
DaysOfYear(y, doy) == DaysOfEra(y, y \div 400, doy)
DaysFromCivil(y0, m, d) ==
    DaysOfYear(IF m <= 2 THEN y0 - 1 ELSE y0,
               (153 * (IF m > 2 THEN m - 3 ELSE m + 9) + 2) \div 5 + d - 1)

\* the wall-clock reading of instant t in a zone tz seconds east of UTC
LocalSeconds(t, tz) == t + tz
LocalDay(t, tz) == LocalSeconds(t, tz) \div Day

\* dt.strftime(fmt): the fields the format keeps of the wall-clock time
Strftime(fmt, t, tz) ==
    CASE fmt = "%Y-%m" ->
            LET c == CivilFromDays(LocalDay(t, tz)) IN <<c.year, c.month>>
      [] fmt = "%G-W%V" -> <<(LocalDay(t, tz) + 3) \div 7>>
      [] fmt = "%Y-%m-%d" -> <<LocalDay(t, tz)>>
      [] fmt = "%Y-%m-%d %a" -> <<LocalDay(t, tz)>>
      [] fmt = "%Y-%m-%d %a %H" -> <<LocalSeconds(t, tz) \div Hour>>
      [] fmt = "%Y-%m-%d %a %H:%M" -> <<LocalSeconds(t, tz) \div Minute>>
      [] fmt = "%Y-%m-%d %a %H:%M:%S" -> <<LocalSeconds(t, tz) \div Second>>

\* datetime.strptime(dt_str + ' n', fmt + ' %d') for "%Y-%m", (fmt + ' %u') for
\* "%G-W%V", and strptime(dt_str, fmt) for the day format: the naive wall-clock
\* time, in seconds, that the string names (n is the day of the month or the ISO
\* weekday appended to the string)
Strptime(fmt, dt_str, n) ==
    CASE fmt = "%Y-%m" -> DaysFromCivil(dt_str[1], dt_str[2], n) * Day
      [] fmt = "%G-W%V" -> (dt_str[1] * 7 - 3 + (n - 1)) * Day
      [] fmt = "%Y-%m-%d %a" -> dt_str[1] * Day

\* naive.replace(tzinfo=tz): the instant at which zone tz's wall clock reads naive
ReplaceTzinfo(naive, tz) == naive - tz

\* ------------------------------------------------------------ the gatherer
VARIABLES
    pc,                    \* "new", "ready", "running", "eof", "flushed", "done",
                           \* or the exception that ended the program
    tzoffset,              \* the UTC offset of the stream's timestamps, in seconds
    profile,               \* which family of input streams the upstream produces
    \* DataGatherer attributes
    resolution, amend_values, zeros_per_cumulating, truncate_timestamp,
    dt_format, litres_per_bar, step,
    \* processor.get_values(): the samples pulled so far, and the one in flight
    input, q0,
    \* _get_amended_values
    last_value, q1, events,
    \* _get_grouped_data
    last_group, entry, q2, grouped,
    \* _get_grouped_data_and_gap_lengths
    last_entry, q3,
    \* get_grouped_data_and_gap_lengths
    last_period, sum_per_period, zeroings_per_period, cumulative_since_0,
    zeros_in_row, out,
    passes,                \* history: the pairs taken so far, with the locals
                           \* before and after each iteration
    \* get_visualization
    lines,                 \* the lines yielded so far
    \* the time functions applied on their own
    probe,
    \* value_db
    table,                 \* the rows of watermeter_image: filename -> data
    op,                    \* the call of process_in_blocks in progress
    calls                  \* history: the calls of the processor so far

gvars == <<resolution, amend_values, zeros_per_cumulating, truncate_timestamp,
           dt_format, litres_per_bar, step>>
srcvars == <<input, q0>>
amendvars == <<last_value, q1, events>>
groupvars == <<last_group, entry, q2, grouped>>
gapvars == <<last_entry, q3>>
cumvars == <<last_period, sum_per_period, zeroings_per_period,
             cumulative_since_0, zeros_in_row, out, passes, lines>>
dbvars == <<table, op, calls>>
vars == <<pc, tzoffset, profile, dbvars, gvars, srcvars, amendvars, groupvars, gapvars,
          cumvars, probe>>

Resolutions == {"second", "three-seconds", "five-seconds", "minute", "hour",
                "day", "week", "month"}
\* names the setter does not know: a made-up one, and a shorthand letter that
\* only parse_args expands
UnknownResolutions == {"fortnight", "d"}

Unset == "unset"

\* The attributes after `self.resolution = res` on a gatherer whose attributes
\* were old; raised tells whether the setter raised ValueError.  The setter
\* assigns _resolution, zeros_per_cumulating and _truncate_timestamp before it
\* looks at the name.
ResolutionSetter(old, res) ==
    LET base == [old EXCEPT !.resolution = res,
                            !.zeros_per_cumulating = 1,
                            !.truncate_timestamp = "_truncate_by_step",
                            !.raised = FALSE]
    IN  CASE res = "month" ->
                [base EXCEPT !.truncate_timestamp = "_truncate_by_month",
                             !.dt_format = "%Y-%m",
                             !.litres_per_bar = 100000,
                             !.step = 30 * Day]
          [] res = "week" ->
                [base EXCEPT !.truncate_timestamp = "_truncate_by_week",
                             !.dt_format = "%G-W%V",
                             !.litres_per_bar = 10000,
                             !.step = 7 * Day]
          [] res = "day" ->
                [base EXCEPT !.truncate_timestamp = "_truncate_by_day",
                             !.dt_format = "%Y-%m-%d %a",
                             !.litres_per_bar = 1000,
                             !.step = Day]
          [] res = "hour" ->
                [base EXCEPT !.dt_format = "%Y-%m-%d %a %H",
                             !.litres_per_bar = 1000,
                             !.step = Hour]
          [] res = "minute" ->
                [base EXCEPT !.dt_format = "%Y-%m-%d %a %H:%M",
                             !.litres_per_bar = 50,
                             !.step = Minute]
          [] res = "five-seconds" ->
                [base EXCEPT !.dt_format = "%Y-%m-%d %a %H:%M:%S",
                             !.litres_per_bar = 10,
                             !.step = 5 * Second]
          [] res = "three-seconds" ->
                [base EXCEPT !.zeros_per_cumulating = 2,
                             !.dt_format = "%Y-%m-%d %a %H:%M:%S",
                             !.litres_per_bar = 5,
                             !.step = 3 * Second]
          [] res = "second" ->
                [base EXCEPT !.zeros_per_cumulating = 3,
                             !.dt_format = "%Y-%m-%d %a %H:%M:%S",
                             !.litres_per_bar = 2,
                             !.step = Second]
          [] OTHER -> [base EXCEPT !.raised = TRUE]

\* a gatherer's attributes as one record (litres_per_bar in 1/100 litre)
Attributes ==
    [resolution |-> resolution, zeros_per_cumulating |-> zeros_per_cumulating,
     truncate_timestamp |-> truncate_timestamp, dt_format |-> dt_format,
     litres_per_bar |-> litres_per_bar, step |-> step, raised |-> FALSE]
\* before __init__ has run no attribute is set
NoAttributes ==
    [resolution |-> Unset, zeros_per_cumulating |-> 0,
     truncate_timestamp |-> Unset, dt_format |-> Unset,
     litres_per_bar |-> 0, step |-> 0, raised |-> FALSE]
\* the attributes of a gatherer constructed with a recognized resolution
Profile(res) == ResolutionSetter(NoAttributes, res)

\* ------------------------------------------------ truncation and stepping
\* g is a record of gatherer attributes, t an instant, tz its UTC offset
truncate_by_month(g, t, tz) ==
    LET fmt == g.dt_format
        dt_str == Strftime(fmt, t, tz)
        truncated == Strptime(fmt, dt_str, 1)
    IN  ReplaceTzinfo(truncated, tz)

truncate_by_week(g, t, tz) ==
    LET fmt == g.dt_format
        dt_str == Strftime(fmt, t, tz)
        truncated == Strptime(fmt, dt_str, 1)
    IN  ReplaceTzinfo(truncated, tz)

truncate_by_day(g, t, tz) ==
    LET fmt == g.dt_format
        truncated == Strptime(fmt, Strftime(fmt, t, tz), 0)
    IN  ReplaceTzinfo(truncated, tz)

\* mutant: the steps are counted on the wall clock of the timestamp's zone,
\* not from EPOCH
truncate_by_step_wall_clock(g, t, tz) ==
    LET secs_since_epoch == LocalSeconds(t, tz) - EPOCH
        num_steps == secs_since_epoch \div g.step
    IN  EPOCH + g.step * num_steps

truncate_by_step(g, t, tz) ==
    LET secs_since_epoch == t - EPOCH
        num_steps == secs_since_epoch \div g.step
    IN  EPOCH + g.step * num_steps

\* self._truncate_timestamp(dt): the bound method the setter selected
Truncate(g, t, tz) ==
    CASE g.truncate_timestamp = "_truncate_by_month" -> truncate_by_month(g, t, tz)
      [] g.truncate_timestamp = "_truncate_by_week" -> truncate_by_week(g, t, tz)
      [] g.truncate_timestamp = "_truncate_by_day" -> truncate_by_day(g, t, tz)
      [] g.truncate_timestamp = "_truncate_by_step" -> truncate_by_step(g, t, tz)

\* mutant: the month's step does not carry the timestamp's tzinfo
step_timestamp_without_tzinfo(g, t, tz) ==
    IF g.resolution = "month"
    THEN LET c == CivilFromDays(LocalDay(t, tz))
             n == 12 * c.year + (c.month - 1) + 1
             y == n \div 12
             m == n % 12
         IN  ReplaceTzinfo(DaysFromCivil(y, m + 1, 1) * Day, 0)
    ELSE Truncate(g, t, tz) + g.step

step_timestamp(g, t, tz) ==
    IF g.resolution = "month"
    THEN LET c == CivilFromDays(LocalDay(t, tz))
             n == 12 * c.year + (c.month - 1) + 1
             y == n \div 12
             m == n % 12
         IN  ReplaceTzinfo(DaysFromCivil(y, m + 1, 1) * Day, tz)
    ELSE Truncate(g, t, tz) + g.step

get_group(g, t, tz) == Strftime(g.dt_format, Truncate(g, t, tz), tz)

RECURSIVE StepsFrom(_, _, _, _)
StepsFrom(g, t, end, tz) ==
    IF t < end THEN <<t>> \o StepsFrom(g, step_timestamp(g, t, tz), end, tz)
    ELSE <<>>

\* mutant: the walk begins at start itself (`t = start`), not at the first
\* boundary after it
get_time_steps_between_from_start(g, start, end, tz) ==
    StepsFrom(g, start, end, tz)

get_time_steps_between(g, start, end, tz) ==
    StepsFrom(g, step_timestamp(g, start, tz), end, tz)

\* mutant: the end is not truncated to the start of its period
has_time_steps_between_untruncated(g, start, end, tz) ==
    step_timestamp(g, start, tz) < end

\* mutant: <= in place of <
has_time_steps_between_or_equal(g, start, end, tz) ==
    step_timestamp(g, start, tz) <= Truncate(g, end, tz)

has_time_steps_between(g, start, end, tz) ==
    step_timestamp(g, start, tz) < Truncate(g, end, tz)

\* ------------------------------------------------------------- the upstream
\* An InterpretedValue as DataProcessor.get_values() yields it; filename is the
\* sample's position in the stream, event_number is filename_data.event_number.
Value(t, fv, dfv, dt, synthetic, filename, event_number) ==
    [t |-> t, fv |-> fv, dfv |-> dfv, dt |-> dt, synthetic |-> synthetic,
     filename |-> filename, event_number |-> event_number]

\* litres as fixed-point units
DeciLitres(n) == (n * UnitsPerLitre) \div 10
CentiLitres(n) == (n * UnitsPerLitre) \div 100

\* the UTC offsets of timestamps (EPOCH's, START_FROM's)
TzOffsets == {0, 3 * Hour}
\* the first sample's time: two seconds before the wall clock of zone tz shows
\* the beginning of the year 2019 (the end of a Monday, a month and a year)
StartTime(tz) == ReplaceTzinfo(DaysFromCivil(2019, 1, 1) * Day, tz) - 2 * Second
FirstFv == 100 * UnitsPerLitre

\* the time that passes between two samples: a second, 35 seconds, or three
\* or twelve nominal steps of the resolution
InputDts(prof, g) ==
    CASE prof = "flow" -> {Second, 35 * Second, 3 * g.step, 12 * g.step}
      [] prof = "cum" -> {Second, 4 * Second, 35 * Second}
      [] prof = "amend" -> {Second, 3 * g.step, 12 * g.step}
      [] prof = "event" -> {Second, 35 * Second, 95 * Second}
      [] prof = "render" -> {Second, 4 * Second, 35 * Second}
\* the signed deltas of a sample that has a predecessor
InputDfvs(prof) ==
    CASE prof = "flow" -> {Some(0), Some(0 - CentiLitres(5)),
                           Some(CentiLitres(5)), Some(DeciLitres(7))}
      [] prof = "cum" -> {Some(0), Some(CentiLitres(5))}
      [] prof = "amend" -> {Some(CentiLitres(5)), Some(DeciLitres(7))}
      [] prof = "event" -> {Some(CentiLitres(5))}
      [] prof = "render" -> {Some(0), Some(CentiLitres(5))}
\* the dt of a sample that comes d after its predecessor with delta dfv: absent
\* with the delta, and otherwise d (or, RawSample.dt being nullable, absent)
InputDtFields(prof, d, dfv) ==
    IF dfv = None THEN {None}
    ELSE IF prof = "render" THEN {Some(d), None}
    ELSE {Some(d)}
\* the UTC offset of the stream's timestamps
InputTzOffsets(prof) ==
    CASE prof = "flow" -> {3 * Hour}
           [] prof = "cum" -> {3 * Hour}
           [] prof = "amend" -> {3 * Hour}
           [] prof = "event" -> {3 * Hour}
           [] prof = "render" -> {3 * Hour}
           [] prof = "bar" -> {3 * Hour}
           [] prof = "db" -> {3 * Hour}
           [] prof = "time" -> TzOffsets
\* the event number of a sample's file name: absent, or 0 and up
EventNumbers == {None} \cup {Some(n) : n \in 0..MaxEventNumber}
InputEventNumbers(prof) ==
    CASE prof = "flow" -> {None}
      [] prof = "cum" -> {None}
      [] prof = "amend" -> {None}
      [] prof = "event" -> EventNumbers
      [] prof = "render" -> {None}
InputLen(prof) ==
    CASE prof = "flow" -> MaxSamples
      [] prof = "cum" -> MaxCumSamples
      [] prof = "amend" -> MaxAmendSamples
      [] prof = "event" -> MaxEventSamples
      [] prof = "render" -> MaxRenderSamples

AllQueuesEmpty == q0 = <<>> /\ q1 = <<>> /\ q2 = <<>> /\ q3 = <<>>

\* ------------------------------------------------------ _get_amended_values
\* mutant: dfv and dt are measured from the sample before the triggering one,
\* not from the previous synthetic value
SyntheticValueFromFirst(prev, cur_t, cur_fv, value) ==
    Value(cur_t, cur_fv, Some(cur_fv - (value.fv - Get(value.dfv))),
          Some(cur_t - (value.t - Get(value.dt))), TRUE,
          value.filename, value.event_number)

SyntheticValue(prev, cur_t, cur_fv, value) ==
    Value(cur_t, cur_fv, Some(cur_fv - prev.fv), Some(cur_t - prev.t), TRUE,
          value.filename, value.event_number)

\* the body of `for cur_t in t_steps`: the synthetic values yielded, in order
RECURSIVE AmendedValues(_, _, _, _, _)
AmendedValues(prev, cur_fv, t_steps, fv_step, value) ==
    IF t_steps = <<>> THEN <<>>
    ELSE LET new_fv == cur_fv + fv_step
             new_value == SyntheticValue(prev, Head(t_steps), new_fv, value)
         IN  <<new_value>> \o
             AmendedValues(new_value, new_fv, Tail(t_steps), fv_step, value)

\* mutant: t_steps[-1:], only the latest step
LastStepOnly(t_steps) == SubSeq(t_steps, Len(t_steps), Len(t_steps))

\* mutant: t_steps[:MAX_SYNTHETIC_VALUES_TO_INSERT], the earliest steps
FirstSteps(t_steps) ==
    IF Len(t_steps) <= MAX_SYNTHETIC_VALUES_TO_INSERT THEN t_steps
    ELSE SubSeq(t_steps, 1, MAX_SYNTHETIC_VALUES_TO_INSERT)

\* t_steps[-MAX_SYNTHETIC_VALUES_TO_INSERT:]
LastSteps(t_steps) ==
    IF Len(t_steps) <= MAX_SYNTHETIC_VALUES_TO_INSERT THEN t_steps
    ELSE SubSeq(t_steps, Len(t_steps) - MAX_SYNTHETIC_VALUES_TO_INSERT + 1,
                Len(t_steps))

RECURSIVE SumDfv(_)
SumDfv(values) ==
    IF values = <<>> THEN 0
    ELSE OrElse(Head(values).dfv, 0) + SumDfv(Tail(values))

\* abs(too_much) < 0.0001
WithinTolerance(too_much) == Abs(too_much) < UnitsPerLitre \div 10000

\* One iteration of the loop over processor.get_values(): what it yields,
\* the new last_value, the interpolation event if there was one, and the
\* exception if it raised (None > 0.1 is a TypeError).
AmendOne(g, last, value, tz) ==
    LET plain == [yielded |-> <<value>>, last_value |-> Some(value),
                  event |-> None, raised |-> "no"]
        crash == [yielded |-> <<>>, last_value |-> last,
                  event |-> None, raised |-> "TypeError"]
    IN  IF last = None THEN plain
        ELSE IF value.dfv = None THEN crash
        ELSE IF ~(Get(value.dfv) > UnitsPerLitre \div 10) THEN plain
        ELSE IF Get(last).dfv = None THEN crash
        ELSE IF ~(Get(Get(last).dfv) > 0) THEN plain
        ELSE
          LET all_steps == get_time_steps_between(g, Get(last).t, value.t, tz)
          IN  IF all_steps = <<>> THEN plain
              ELSE
                LET t_steps == LastSteps(all_steps)
                    fv_step == DivRound(Get(value.dfv), Len(t_steps))
                    news == AmendedValues(Get(last), Get(last).fv, t_steps,
                                          fv_step, value)
                    sum_of_amendeds == SumDfv(news)
                    too_much == sum_of_amendeds - Get(value.dfv)
                IN  [yielded |-> news,
                     last_value |-> Some(news[Len(news)]),
                     event |-> Some([prev |-> Get(last), trigger |-> value,
                                     steps |-> all_steps, synth |-> news]),
                     raised |-> IF WithinTolerance(too_much) THEN "no"
                                ELSE "AssertionError"]

\* -------------------------------------------------------- _get_grouped_data
\* mutant: the fields of the open GroupedData object are overwritten in place
\* of constructing a new object for the new group
NewEntryInPlace(group, value, oid) ==
    [group_id |-> group,
     min_t |-> value.t,
     max_t |-> value.t,
     min_fv |-> value.fv,
     max_fv |-> value.fv,
     sum |-> OrElse(value.dfv, 0),
     sum_t |-> OrElse(value.dt, 0),
     synthetic_count |-> IF value.synthetic THEN 1 ELSE 0,
     source_points |-> 1,
     max_event_num |-> value.event_number,
     oid |-> IF entry = None THEN oid ELSE Get(entry).oid,
     members |-> <<value>>]

NewEntry(group, value, oid) ==
    [group_id |-> group,
     min_t |-> value.t,
     max_t |-> value.t,
     min_fv |-> value.fv,
     max_fv |-> value.fv,
     sum |-> OrElse(value.dfv, 0),
     sum_t |-> OrElse(value.dt, 0),
     synthetic_count |-> IF value.synthetic THEN 1 ELSE 0,
     source_points |-> 1,
     max_event_num |-> value.event_number,
     oid |-> oid,                 \* which GroupedData object this is
     members |-> <<value>>]       \* history: the values merged into it

\* max(a or 0, b or 0) or None
MaxEventNum(a, b) ==
    LET m == Max(OrElse(a, 0), OrElse(b, 0))
    IN  IF m = 0 THEN None ELSE Some(m)

\* mutant: `entry.sum = ...` in place of `entry.sum += ...`
MergeValueAssignsSum(e, value) ==
    [e EXCEPT !.min_t = Min(value.t, e.min_t),
              !.max_t = Max(value.t, e.max_t),
              !.min_fv = Min(value.fv, e.min_fv),
              !.max_fv = Max(value.fv, e.max_fv),
              !.sum = OrElse(value.dfv, 0),
              !.sum_t = e.sum_t + OrElse(value.dt, 0),
              !.synthetic_count = e.synthetic_count + (IF value.synthetic THEN 1 ELSE 0),
              !.source_points = e.source_points + 1,
              !.max_event_num = MaxEventNum(value.event_number, e.max_event_num),
              !.members = Append(e.members, value)]

MergeValue(e, value) ==
    [e EXCEPT !.min_t = Min(value.t, e.min_t),
              !.max_t = Max(value.t, e.max_t),
              !.min_fv = Min(value.fv, e.min_fv),
              !.max_fv = Max(value.fv, e.max_fv),
              !.sum = e.sum + OrElse(value.dfv, 0),
              !.sum_t = e.sum_t + OrElse(value.dt, 0),
              !.synthetic_count = e.synthetic_count + (IF value.synthetic THEN 1 ELSE 0),
              !.source_points = e.source_points + 1,
              !.max_event_num = MaxEventNum(value.event_number, e.max_event_num),
              !.members = Append(e.members, value)]

\* ------------------------------------------ get_grouped_data_and_gap_lengths
IsGap(x) == "gap" \in DOMAIN x
GapElement(d) == [gap |-> d]

CumulativeGroupedData(cum, spp, zpp, e) ==
    [f \in DOMAIN e \cup {"cum", "spp", "zpp"} |->
        CASE f = "cum" -> cum
          [] f = "spp" -> spp
          [] f = "zpp" -> zpp
          [] OTHER -> e[f]]

\* gap >= timedelta(seconds=30)
IsBigGap(gap) == gap >= BIG_GAP_SECONDS * Second

\* the locals of get_grouped_data_and_gap_lengths as one record
CumLocals ==
    [last_period |-> last_period, sum_per_period |-> sum_per_period,
     zeroings_per_period |-> zeroings_per_period,
     cumulative_since_0 |-> cumulative_since_0, zeros_in_row |-> zeros_in_row]

\* `if entry:` sum_per_period += entry.sum; cumulative_since_0 += entry.sum
Accumulate(c, pair) ==
    IF pair.entry # None
    THEN [c EXCEPT !.sum_per_period = c.sum_per_period + Get(pair.entry).sum,
                   !.cumulative_since_0 =
                       c.cumulative_since_0 + Get(pair.entry).sum]
    ELSE c

\* mutant: any gap counts as a big gap (`if gap or ...`)
CountZerosAnyGap(c, pair, zpc) ==
    LET is_big_gap == pair.gap # None
        zero_entry == pair.entry # None /\ Get(pair.entry).sum = 0
        z == c.zeros_in_row + 1
    IN  IF is_big_gap \/ zero_entry
        THEN IF is_big_gap \/ z >= zpc
             THEN [c EXCEPT !.zeros_in_row = z,
                            !.cumulative_since_0 = 0,
                            !.zeroings_per_period =
                                IF z = zpc THEN c.zeroings_per_period + 1
                                ELSE c.zeroings_per_period]
             ELSE [c EXCEPT !.zeros_in_row = z]
        ELSE [c EXCEPT !.zeros_in_row = 0]

\* mutant: the `else: zeros_in_row = 0` branch is missing
CountZerosNeverCleared(c, pair, zpc) ==
    LET is_big_gap == pair.gap # None /\ IsBigGap(Get(pair.gap))
        zero_entry == pair.entry # None /\ Get(pair.entry).sum = 0
        z == c.zeros_in_row + 1
    IN  IF is_big_gap \/ zero_entry
        THEN IF is_big_gap \/ z >= zpc
             THEN [c EXCEPT !.zeros_in_row = z,
                            !.cumulative_since_0 = 0,
                            !.zeroings_per_period =
                                IF z = zpc THEN c.zeroings_per_period + 1
                                ELSE c.zeroings_per_period]
             ELSE [c EXCEPT !.zeros_in_row = z]
        ELSE c

\* mutant: a big gap resets only once the streak has reached the threshold
\* (`if zeros_in_row >= self.zeros_per_cumulating`)
CountZerosStreakOnly(c, pair, zpc) ==
    LET is_big_gap == pair.gap # None /\ IsBigGap(Get(pair.gap))
        zero_entry == pair.entry # None /\ Get(pair.entry).sum = 0
        z == c.zeros_in_row + 1
    IN  IF is_big_gap \/ zero_entry
        THEN IF z >= zpc
             THEN [c EXCEPT !.zeros_in_row = z,
                            !.cumulative_since_0 = 0,
                            !.zeroings_per_period =
                                IF z = zpc THEN c.zeroings_per_period + 1
                                ELSE c.zeroings_per_period]
             ELSE [c EXCEPT !.zeros_in_row = z]
        ELSE [c EXCEPT !.zeros_in_row = 0]

\* the zero streak: `if is_big_gap or (entry and entry.sum == 0.0): ... else:
\* zeros_in_row = 0`
CountZeros(c, pair, zpc) ==
    LET is_big_gap == pair.gap # None /\ IsBigGap(Get(pair.gap))
        zero_entry == pair.entry # None /\ Get(pair.entry).sum = 0
        z == c.zeros_in_row + 1
    IN  IF is_big_gap \/ zero_entry
        THEN IF is_big_gap \/ z >= zpc
             THEN [c EXCEPT !.zeros_in_row = z,
                            !.cumulative_since_0 = 0,
                            !.zeroings_per_period =
                                IF z = zpc THEN c.zeroings_per_period + 1
                                ELSE c.zeroings_per_period]
             ELSE [c EXCEPT !.zeros_in_row = z]
        ELSE [c EXCEPT !.zeros_in_row = 0]

\* `if period != last_period:` the day's counters start again
DayChange(c, e, tz) ==
    LET period == Strftime("%Y-%m-%d", e.min_t, tz)
    IN  IF Some(period) # c.last_period
        THEN [c EXCEPT !.sum_per_period = 0,
                       !.zeroings_per_period = 1,
                       !.last_period = Some(period)]
        ELSE c

\* the locals after the zero streak has been counted
Counted(c, pair, zpc) == CountZeros(Accumulate(c, pair), pair, zpc)
\* the locals after an iteration that yields the entry e
Enriched(c, pair, zpc, tz) == DayChange(Counted(c, pair, zpc), Get(pair.entry), tz)

\* mutant: a gap starts the day's sum again
CumOneGapClearsDaySum(c, pair, zpc, tz) ==
    IF pair.gap # None
    THEN [locals |-> [Counted(c, pair, zpc) EXCEPT !.sum_per_period = 0],
          yielded |-> GapElement(Get(pair.gap))]
    ELSE [locals |-> Enriched(c, pair, zpc, tz),
          yielded |-> CumulativeGroupedData(
              Enriched(c, pair, zpc, tz).cumulative_since_0,
              Enriched(c, pair, zpc, tz).sum_per_period,
              Enriched(c, pair, zpc, tz).zeroings_per_period,
              Get(pair.entry))]

\* One iteration of the loop over (entry, gap) pairs: the locals after it
\* and the element it yields.  pair.entry and pair.gap are Optionals.
CumOne(c, pair, zpc, tz) ==
    IF pair.gap # None
    THEN [locals |-> Counted(c, pair, zpc),
          yielded |-> GapElement(Get(pair.gap))]
    ELSE [locals |-> Enriched(c, pair, zpc, tz),
          yielded |-> CumulativeGroupedData(
              Enriched(c, pair, zpc, tz).cumulative_since_0,
              Enriched(c, pair, zpc, tz).sum_per_period,
              Enriched(c, pair, zpc, tz).zeroings_per_period,
              Get(pair.entry))]

\* ----------------------------------------------------------------- make_bar
\* the eight block characters, from the thinnest to the full block
BAR_SYMBOLS == <<"U+258F", "U+258E", "U+258D", "U+258C",
                 "U+258B", "U+258A", "U+2589", "U+2588">>
\* BAR_SYMBOLS_MAP.get(n, 'ERR')
BAR_SYMBOLS_MAP(n) ==
    IF n \in 0..(Len(BAR_SYMBOLS) - 1) THEN BAR_SYMBOLS[n + 1] ELSE "ERR"
BAR_SYMBOL_FULL == BAR_SYMBOLS[Len(BAR_SYMBOLS)]

\* round(a / n) for a >= 0 and n > 0: the nearest integer, of two equally
\* near ones the even one
Round(a, n) ==
    IF 2 * (a % n) < n THEN a \div n
    ELSE IF 2 * (a % n) > n THEN a \div n + 1
    ELSE IF (a \div n) % 2 = 0 THEN a \div n
    ELSE a \div n + 1

\* mutant: the fraction is scaled by the number of symbols
last_symbol_by_count(num, den) ==
    IF num % den = 0 THEN <<>>
    ELSE <<BAR_SYMBOLS_MAP(Round((num % den) * Len(BAR_SYMBOLS), den))>>

\* the last symbol of the bar of the value num / den >= 0: fractions is
\* (num % den) / den
last_symbol(num, den) ==
    IF num % den = 0 THEN <<>>
    ELSE <<BAR_SYMBOLS_MAP(Round((num % den) * (Len(BAR_SYMBOLS) - 1), den))>>

\* make_bar(value) for the value num / den (den > 0): the string as the
\* sequence of its characters ('ERR' as one element)
RECURSIVE make_bar(_, _)
make_bar(num, den) ==
    IF num < 0 THEN <<"-">> \o make_bar(0 - num, den)
    ELSE [i \in 1..(num \div den) |-> BAR_SYMBOL_FULL] \o last_symbol(num, den)

\* ------------------------------------------------------- get_visualization
\* the line of a gap: its seconds and the duration (a line is the sequence of
\* the pieces the format string puts together; '' is the empty sequence)
GapLine(gap) == <<"s = ", gap>>

\* which flow estimate the line of a bucket shows
Extra(x) ==
    IF x.sum = 0 THEN ""
    ELSE IF x.max_t - x.min_t > Hour THEN "kl/y"
    ELSE "l/min"

\* entry.sum * bar_per_litres as the fraction the bar is made of
\* (litres_per_bar is kept in 1/100 litre)
BarValue(sum, lpb) == [num |-> sum, den |-> lpb * (UnitsPerLitre \div 100)]

BucketLine(x, lpb) ==
    <<"ds: ", x.min_t, x.max_t, x.source_points, x.sum, Extra(x),
      make_bar(BarValue(x.sum, lpb).num, BarValue(x.sum, lpb).den)>>

\* One iteration of get_visualization's loop: the lines yielded for the
\* element x, and the exception raised.  `60.0 * entry.sum / secs` divides by
\* entry.sum_t's seconds.
Visualize(x, lpb) ==
    IF IsGap(x)
    THEN [lines |-> IF x.gap >= LONG_GAP_SECONDS * Second
                    THEN <<<<>>, GapLine(x.gap), <<>>>>
                    ELSE <<GapLine(x.gap)>>,
          raised |-> "no"]
    ELSE IF Extra(x) = "l/min" /\ x.sum_t = 0
    THEN [lines |-> <<>>, raised |-> "ZeroDivisionError"]
    ELSE [lines |-> <<BucketLine(x, lpb)>>, raised |-> "no"]

\* ------------------------------------------------------------------ actions
Running == pc \in {"running", "eof", "flushed"}

\* DataGatherer(value_getter, res, amend): __init__ runs the resolution setter
\* and then stores amend_values.  When the setter raises, the exception leaves
\* __init__ and the half-built object is never bound to a name: the program
\* holds no gatherer, so no attribute is set.
Construct(res, amend) ==
    /\ pc = "new"
    /\ LET a == ResolutionSetter(NoAttributes, res)
       IN  IF a.raised
           THEN /\ pc' = "ValueError"
                /\ UNCHANGED gvars
           ELSE /\ resolution' = a.resolution
                /\ zeros_per_cumulating' = a.zeros_per_cumulating
                /\ truncate_timestamp' = a.truncate_timestamp
                /\ dt_format' = a.dt_format
                /\ litres_per_bar' = a.litres_per_bar
                /\ step' = a.step
                /\ amend_values' = amend
                /\ pc' = "ready"
    /\ UNCHANGED <<tzoffset, profile, dbvars, srcvars, amendvars, groupvars, gapvars,
                   cumvars, probe>>

\* gatherer.resolution = res on a constructed gatherer
SetResolution(res) ==
    /\ pc = "ready"
    /\ LET a == ResolutionSetter(Attributes, res)
       IN  /\ resolution' = a.resolution
           /\ zeros_per_cumulating' = a.zeros_per_cumulating
           /\ truncate_timestamp' = a.truncate_timestamp
           /\ dt_format' = a.dt_format
           /\ litres_per_bar' = a.litres_per_bar
           /\ step' = a.step
           /\ pc' = IF a.raised THEN "ValueError" ELSE "ready"
    /\ UNCHANGED <<amend_values, tzoffset, profile, dbvars, srcvars, amendvars,
                   groupvars, gapvars, cumvars, probe>>

\* get_visualization() starts to iterate: every generator's locals are fresh
Start ==
    /\ pc = "ready"
    /\ pc' = "running"
    /\ UNCHANGED <<tzoffset, profile, dbvars, gvars, srcvars, amendvars, groupvars,
                   gapvars, cumvars, probe>>

\* processor.get_values() yields the next sample
Produce ==
    /\ pc = "running"
    /\ AllQueuesEmpty
    /\ Len(input) < InputLen(profile)
    /\ \E ev \in InputEventNumbers(profile) :
          \/ /\ input = <<>>
             /\ LET v == Value(StartTime(tzoffset), FirstFv, None, None, FALSE,
                               1, ev)
                IN  input' = <<v>> /\ q0' = <<v>>
          \/ /\ input # <<>>
             /\ \E d \in InputDts(profile, Attributes), dfv \in InputDfvs(profile) :
                   \E dt \in InputDtFields(profile, d, dfv) :
                      LET prev == input[Len(input)]
                          v == Value(prev.t + d, prev.fv + OrElse(dfv, 0), dfv,
                                     dt, FALSE, Len(input) + 1, ev)
                      IN  input' = Append(input, v) /\ q0' = <<v>>
    /\ UNCHANGED <<pc, tzoffset, profile, dbvars, gvars, amendvars, groupvars, gapvars,
                   cumvars, probe>>

\* processor.get_values() is exhausted
EndOfStream ==
    /\ pc = "running"
    /\ AllQueuesEmpty
    /\ pc' = "eof"
    /\ UNCHANGED <<tzoffset, profile, dbvars, gvars, srcvars, amendvars, groupvars,
                   gapvars, cumvars, probe>>

\* _get_amended_values takes the sample in flight (amend_values only)
AmendStep ==
    /\ Running
    /\ amend_values
    /\ q0 # <<>> /\ q1 = <<>> /\ q2 = <<>> /\ q3 = <<>>
    /\ LET r == AmendOne(Attributes, last_value, Head(q0), tzoffset)
       IN  /\ q1' = r.yielded
           /\ last_value' = r.last_value
           /\ events' = IF r.event = None THEN events
                        ELSE Append(events, Get(r.event))
           /\ pc' = IF r.raised = "no" THEN pc ELSE r.raised
    /\ q0' = Tail(q0)
    /\ UNCHANGED <<tzoffset, profile, dbvars, gvars, input, groupvars, gapvars, cumvars,
                   probe>>

\* _get_grouped_data takes the next value of get_values()
GroupStep ==
    /\ Running
    /\ q2 = <<>> /\ q3 = <<>>
    /\ LET src == IF amend_values THEN q1 ELSE q0
       IN  /\ src # <<>>
           /\ LET value == Head(src)
                  group == get_group(Attributes, value.t, tzoffset)
                  oid == Len(grouped) + Cardinality(entry) + 1
              IN  IF last_group = None \/ Some(group) # last_group
                  THEN /\ last_group' = Some(group)
                       /\ q2' = IF entry # None THEN <<Get(entry)>> ELSE <<>>
                       /\ grouped' = IF entry # None
                                     THEN Append(grouped, Get(entry))
                                     ELSE grouped
                       /\ entry' = Some(NewEntry(group, value, oid))
                  ELSE /\ entry' = Some(MergeValue(Get(entry), value))
                       /\ UNCHANGED <<last_group, q2, grouped>>
           /\ IF amend_values
              THEN q1' = Tail(q1) /\ UNCHANGED q0
              ELSE q0' = Tail(q0) /\ UNCHANGED q1
    /\ UNCHANGED <<pc, tzoffset, profile, dbvars, gvars, input, last_value, events,
                   gapvars, cumvars, probe>>

\* mutant: the `if entry: yield entry` after the loop is missing
FlushDropsOpenEntry ==
    /\ pc = "eof"
    /\ pc' = "flushed"
    /\ UNCHANGED <<tzoffset, profile, dbvars, gvars, srcvars, amendvars, groupvars,
                   gapvars, cumvars, probe>>

\* _get_grouped_data after its loop: the entry still open is yielded
Flush ==
    /\ pc = "eof"
    /\ pc' = "flushed"
    /\ q2' = IF entry # None THEN <<Get(entry)>> ELSE <<>>
    /\ grouped' = IF entry # None THEN Append(grouped, Get(entry)) ELSE grouped
    /\ UNCHANGED <<tzoffset, profile, dbvars, gvars, srcvars, amendvars, last_group,
                   entry, gapvars, cumvars, probe>>

\* mutant: the gap is yielded after the entry it precedes
GapStepGapAfterEntry ==
    /\ Running
    /\ q2 # <<>> /\ q3 = <<>>
    /\ LET e == Head(q2)
       IN  /\ q3' = IF /\ last_entry # None
                       /\ has_time_steps_between(Attributes, Get(last_entry).max_t,
                                                 e.min_t, tzoffset)
                    THEN <<[entry |-> Some(e), gap |-> None],
                           [entry |-> None,
                            gap |-> Some(e.min_t - Get(last_entry).max_t)]>>
                    ELSE <<[entry |-> Some(e), gap |-> None]>>
           /\ last_entry' = Some(e)
    /\ q2' = Tail(q2)
    /\ UNCHANGED <<pc, tzoffset, profile, dbvars, gvars, srcvars, amendvars, last_group,
                   entry, grouped, cumvars, probe>>

\* _get_grouped_data_and_gap_lengths takes the next entry
GapStep ==
    /\ Running
    /\ q2 # <<>> /\ q3 = <<>>
    /\ LET e == Head(q2)
       IN  /\ q3' = IF /\ last_entry # None
                       /\ has_time_steps_between(Attributes, Get(last_entry).max_t,
                                                 e.min_t, tzoffset)
                    THEN <<[entry |-> None,
                            gap |-> Some(e.min_t - Get(last_entry).max_t)],
                           [entry |-> Some(e), gap |-> None]>>
                    ELSE <<[entry |-> Some(e), gap |-> None]>>
           /\ last_entry' = Some(e)
    /\ q2' = Tail(q2)
    /\ UNCHANGED <<pc, tzoffset, profile, dbvars, gvars, srcvars, amendvars, last_group,
                   entry, grouped, cumvars, probe>>

\* get_grouped_data_and_gap_lengths takes the next (entry, gap) pair, and
\* get_visualization makes the lines of the element it yields
CumStep ==
    /\ Running
    /\ q3 # <<>>
    /\ LET r == CumOne(CumLocals, Head(q3), zeros_per_cumulating, tzoffset)
       IN  /\ lines' = lines \o Visualize(r.yielded, litres_per_bar).lines
           /\ pc' = IF Visualize(r.yielded, litres_per_bar).raised = "no" THEN pc
                    ELSE Visualize(r.yielded, litres_per_bar).raised
           /\ last_period' = r.locals.last_period
           /\ sum_per_period' = r.locals.sum_per_period
           /\ zeroings_per_period' = r.locals.zeroings_per_period
           /\ cumulative_since_0' = r.locals.cumulative_since_0
           /\ zeros_in_row' = r.locals.zeros_in_row
           /\ out' = Append(out, r.yielded)
           /\ passes' = Append(passes, [pair |-> Head(q3), before |-> CumLocals,
                                        after |-> r.locals])
    /\ q3' = Tail(q3)
    /\ UNCHANGED <<tzoffset, profile, dbvars, gvars, srcvars, amendvars, groupvars,
                   last_entry, probe>>

\* every generator is exhausted
Finish ==
    /\ pc = "flushed"
    /\ AllQueuesEmpty
    /\ pc' = "done"
    /\ UNCHANGED <<tzoffset, profile, dbvars, gvars, srcvars, amendvars, groupvars,
                   gapvars, cumvars, probe>>

\* the locals of the generators before the first iteration
InitPipeline ==
    /\ tzoffset \in InputTzOffsets(profile)
    /\ input = <<>> /\ q0 = <<>>
    /\ last_value = None /\ q1 = <<>> /\ events = <<>>
    /\ last_group = None /\ entry = None /\ q2 = <<>> /\ grouped = <<>>
    /\ last_entry = None /\ q3 = <<>>
    /\ last_period = None /\ sum_per_period = 0 /\ zeroings_per_period = 1
    /\ cumulative_since_0 = 0 /\ zeros_in_row = 0 /\ out = <<>>
    /\ passes = <<>> /\ lines = <<>>

\* no value database is open
NoCall == [call |-> "none"]
NoDatabase == table = <<>> /\ op = NoCall /\ calls = <<>>

\* no gatherer has been constructed yet
InitGatherer ==
    /\ pc = "new"
    /\ resolution = Unset /\ amend_values = FALSE /\ zeros_per_cumulating = 0
    /\ truncate_timestamp = Unset /\ dt_format = Unset
    /\ litres_per_bar = 0 /\ step = 0
    /\ InitPipeline
    /\ NoDatabase
    /\ probe = None

Init == profile = "flow" /\ InitGatherer

Next ==
    \/ \E res \in Resolutions \cup UnknownResolutions, amend \in BOOLEAN :
          Construct(res, amend)
    \/ \E res \in Resolutions \cup UnknownResolutions : SetResolution(res)
    \/ Start
    \/ Produce
    \/ EndOfStream
    \/ AmendStep
    \/ GroupStep
    \/ Flush
    \/ GapStep
    \/ CumStep
    \/ Finish

Spec == Init /\ [][Next]_vars

\* ------------------------------------------------- the cumulative pass
\* A gatherer constructed without amend_values at one of the resolutions with
\* fixed steps of at most a minute (thresholds 3, 2, 1 and 1), over streams
\* of zero and nonzero deltas a second, 4 seconds or 35 seconds apart: buckets
\* next to each other, short gaps and big gaps.
CumResolutions == {"second", "three-seconds", "five-seconds", "minute"}

InitCum ==
    /\ pc = "ready"
    /\ profile = "cum"
    /\ InitPipeline
    /\ NoDatabase
    /\ amend_values = FALSE
    /\ \E res \in CumResolutions :
          LET a == Profile(res)
          IN  /\ resolution = a.resolution
              /\ zeros_per_cumulating = a.zeros_per_cumulating
              /\ truncate_timestamp = a.truncate_timestamp
              /\ dt_format = a.dt_format
              /\ litres_per_bar = a.litres_per_bar
              /\ step = a.step
    /\ probe = None

NextCum ==
    \/ Start
    \/ Produce
    \/ EndOfStream
    \/ GroupStep
    \/ Flush
    \/ GapStep
    \/ CumStep
    \/ Finish

SpecCum == InitCum /\ [][NextCum]_vars

\* ------------------------------------------------------ the amended stream
\* A gatherer constructed with amend_values at any resolution, over streams of
\* positive deltas (0.05 and 0.7 litres) a second, three steps or twelve steps
\* apart: interpolation events of two or three boundaries, capped events, and
\* events that follow a synthetic value.
InitAmend ==
    /\ pc = "ready"
    /\ profile = "amend"
    /\ InitPipeline
    /\ NoDatabase
    /\ amend_values = TRUE
    /\ \E res \in Resolutions :
          LET a == Profile(res)
          IN  /\ resolution = a.resolution
              /\ zeros_per_cumulating = a.zeros_per_cumulating
              /\ truncate_timestamp = a.truncate_timestamp
              /\ dt_format = a.dt_format
              /\ litres_per_bar = a.litres_per_bar
              /\ step = a.step
    /\ probe = None

NextAmend ==
    \/ Start
    \/ Produce
    \/ EndOfStream
    \/ AmendStep
    \/ GroupStep
    \/ Flush
    \/ GapStep
    \/ CumStep
    \/ Finish

SpecAmend == InitAmend /\ [][NextAmend]_vars

\* ------------------------------------------------ streams with event numbers
\* A gatherer constructed without amend_values at second or minute resolution,
\* over samples a second, 35 or 95 seconds apart whose file names carry no
\* event number or one of 0..MaxEventNumber: buckets of one sample and of
\* several, next to each other and with gaps between them.
EventResolutions == {"second", "minute"}

InitEvent ==
    /\ pc = "ready"
    /\ profile = "event"
    /\ InitPipeline
    /\ NoDatabase
    /\ amend_values = FALSE
    /\ \E res \in EventResolutions :
          LET a == Profile(res)
          IN  /\ resolution = a.resolution
              /\ zeros_per_cumulating = a.zeros_per_cumulating
              /\ truncate_timestamp = a.truncate_timestamp
              /\ dt_format = a.dt_format
              /\ litres_per_bar = a.litres_per_bar
              /\ step = a.step
    /\ probe = None

SpecEvent == InitEvent /\ [][NextCum]_vars

\* ---------------------------------------------------------- rendered streams
\* A gatherer constructed without amend_values at second or minute resolution,
\* over samples a second, 4 or 35 seconds apart with zero and nonzero deltas,
\* whose dt is present or absent: lines of buckets, of short and of long gaps.
RenderResolutions == {"second", "minute"}

InitRender ==
    /\ pc = "ready"
    /\ profile = "render"
    /\ InitPipeline
    /\ NoDatabase
    /\ amend_values = FALSE
    /\ \E res \in RenderResolutions :
          LET a == Profile(res)
          IN  /\ resolution = a.resolution
              /\ zeros_per_cumulating = a.zeros_per_cumulating
              /\ truncate_timestamp = a.truncate_timestamp
              /\ dt_format = a.dt_format
              /\ litres_per_bar = a.litres_per_bar
              /\ step = a.step
    /\ probe = None

SpecRender == InitRender /\ [][NextCum]_vars

\* ------------------------------------------- the time functions on their own
\* A constructed gatherer whose truncation, stepping and grouping are applied
\* to instants of their own: probe.t is the instant, the other fields what the
\* functions returned for it.
MaxProbes == 3
ProbeDts == {Second, 61 * Second, Hour, Day, 7 * Day, 31 * Day}

NoProbeResults ==
    [truncated |-> None, retruncated |-> None, group |-> None,
     group_of_truncated |-> None, stepped |-> None, end |-> None,
     steps |-> None]
\* how long after the instant the enumeration of boundaries ends: at once,
\* after one nominal step, after three
ProbeSpans(g) == {0, g.step, 3 * g.step}
ProbeAt(t, n) ==
    [f \in {"t", "n"} \cup DOMAIN NoProbeResults |->
        CASE f = "t" -> t
          [] f = "n" -> n
          [] OTHER -> NoProbeResults[f]]

InitTime ==
    /\ pc = "probe"
    /\ profile = "time"
    /\ InitPipeline
    /\ NoDatabase
    /\ amend_values = FALSE
    /\ \E res \in Resolutions :
          LET a == Profile(res)
          IN  /\ resolution = a.resolution
              /\ zeros_per_cumulating = a.zeros_per_cumulating
              /\ truncate_timestamp = a.truncate_timestamp
              /\ dt_format = a.dt_format
              /\ litres_per_bar = a.litres_per_bar
              /\ step = a.step
    /\ probe = Some(ProbeAt(StartTime(tzoffset), 0))

\* a later instant is looked at
ProbeAdvance(d) ==
    /\ pc = "probe"
    /\ Get(probe).n < MaxProbes
    /\ probe' = Some(ProbeAt(Get(probe).t + d, Get(probe).n + 1))
    /\ UNCHANGED <<pc, tzoffset, profile, dbvars, gvars, srcvars, amendvars, groupvars,
                   gapvars, cumvars>>

\* _truncate_timestamp and get_group are applied to the instant, and again to
\* the truncated instant
ProbeTruncate ==
    /\ pc = "probe"
    /\ Get(probe).truncated = None
    /\ LET t == Get(probe).t
           truncated == Truncate(Attributes, t, tzoffset)
       IN  probe' = Some([Get(probe) EXCEPT
                !.truncated = Some(truncated),
                !.retruncated = Some(Truncate(Attributes, truncated, tzoffset)),
                !.group = Some(get_group(Attributes, t, tzoffset)),
                !.group_of_truncated =
                    Some(get_group(Attributes, truncated, tzoffset))])
    /\ UNCHANGED <<pc, tzoffset, profile, dbvars, gvars, srcvars, amendvars, groupvars,
                   gapvars, cumvars>>

\* _step_timestamp is applied to the instant, and _get_time_steps_between
\* is run to its end from the instant to an end d later
ProbeSteps(d) ==
    /\ pc = "probe"
    /\ Get(probe).steps = None
    /\ LET t == Get(probe).t
       IN  probe' = Some([Get(probe) EXCEPT
                !.stepped = Some(step_timestamp(Attributes, t, tzoffset)),
                !.end = Some(t + d),
                !.steps = Some(get_time_steps_between(Attributes, t, t + d,
                                                      tzoffset))])
    /\ UNCHANGED <<pc, tzoffset, profile, dbvars, gvars, srcvars, amendvars, groupvars,
                   gapvars, cumvars>>

NextTime ==
    \/ \E d \in ProbeDts : ProbeAdvance(d)
    \/ ProbeTruncate
    \/ \E d \in ProbeSpans(Attributes) : ProbeSteps(d)

SpecTime == InitTime /\ [][NextTime]_vars

\* ------------------------------------------------------- make_bar on its own
\* make_bar applied to values of its own: probe.num / probe.den is the value
\* (fourteenths, sixteenths and fifty-sixths, negative ones too: fractions at
\* and between the sevenths and the eighths), probe.bar the string returned.
BarDenominators == {14, 16, 56}

InitBar ==
    /\ pc = "bar"
    /\ profile = "bar"
    /\ resolution = Unset /\ amend_values = FALSE /\ zeros_per_cumulating = 0
    /\ truncate_timestamp = Unset /\ dt_format = Unset
    /\ litres_per_bar = 0 /\ step = 0
    /\ InitPipeline
    /\ NoDatabase
    /\ \E num \in (0 - MaxBarNumerator)..MaxBarNumerator, den \in BarDenominators :
          probe = Some([num |-> num, den |-> den, bar |-> None])

\* make_bar(value) is called and returns
MakeBar ==
    /\ pc = "bar"
    /\ Get(probe).bar = None
    /\ probe' = Some([Get(probe) EXCEPT
                         !.bar = Some(make_bar(Get(probe).num, Get(probe).den))])
    /\ UNCHANGED <<pc, tzoffset, profile, dbvars, gvars, srcvars, amendvars, groupvars,
                   gapvars, cumvars>>

NextBar == MakeBar

SpecBar == InitBar /\ [][NextBar]_vars

\* ================================================================== value_db
\* ValueDatabase's table watermeter_image, _NewImageProcessorForDir and
\* process_in_blocks.  A row is its filename (the key of both unique indexes)
\* with its reading and error; month_dir, day_dir and modified_at are left out.
Filenames == 1..MaxFilenames
\* reading and error as _format_image_data and parse_value_file make them
ImageData == {[reading |-> "007.123", error |-> ""],
              [reading |-> "", error |-> "UNKNOWN"]}
\* the data of the rows stored before the call
StoredData == [reading |-> "001.000", error |-> ""]
Entry(filename, data) ==
    [filename |-> filename, reading |-> data.reading, error |-> data.error]
Entries == {Entry(f, d) : f \in Filenames, d \in ImageData}
Tables == {[f \in S |-> StoredData] : S \in SUBSET Filenames}
\* os.path.join(directory, filename) and os.path.basename(path)
Path(directory, filename) == <<directory, filename>>
Basename(path) == path[2]
Directory == "2018-12/31"

\* SELECT COUNT(*) FROM watermeter_image WHERE filename IN (filenames)
count_existing_filenames(tb, filenames) ==
    Cardinality(DOMAIN tb \cap {filenames[i] : i \in 1..Len(filenames)})
has_filename(tb, filename) == count_existing_filenames(tb, <<filename>>) > 0

\* INSERT OR REPLACE of one row: a row with the same filename is replaced
InsertOrReplace(tb, e) ==
    [f \in DOMAIN tb \cup {e.filename} |->
        IF f = e.filename THEN [reading |-> e.reading, error |-> e.error]
        ELSE tb[f]]
\* _insert_entries (executemany), and insert_entries, which runs it block by
\* block: the rows are inserted in their order
RECURSIVE insert_entries(_, _)
insert_entries(tb, entries) ==
    IF entries = <<>> THEN tb
    ELSE insert_entries(InsertOrReplace(tb, Head(entries)), Tail(entries))

\* mutant: the rows already stored are not taken out of the block
process_block_unfiltered(tb, block) ==
    LET filenames == [i \in 1..Len(block) |-> block[i].filename]
        existing_count == count_existing_filenames(tb, filenames)
    IN  IF existing_count # Len(filenames) THEN Some(block) ELSE None

\* process_block of insert_or_update_entries: the block _insert_entries is
\* called with, None when it is not called
process_block(tb, block) ==
    LET filenames == [i \in 1..Len(block) |-> block[i].filename]
        existing_count == count_existing_filenames(tb, filenames)
    IN  IF existing_count # Len(filenames)
        THEN IF existing_count > 0
             THEN Some(SelectSeq(block, LAMBDA x : ~has_filename(tb, x.filename)))
             ELSE Some(block)
        ELSE None

\* the paths of the file names fs
Paths(directory, fs) == [i \in 1..Len(fs) |-> Path(directory, fs[i])]

\* mutant: the whole block is collected unless all of it is stored
get_files_to_read_whole_block(tb, filenames, do_replace, directory) ==
    LET existing_count == count_existing_filenames(tb, filenames)
    IN  IF existing_count = Len(filenames) /\ ~do_replace THEN <<>>
        ELSE Paths(directory, filenames)

\* _get_files_to_read, run to its end (the database does not change while
\* get_data_of_images takes the paths)
get_files_to_read(tb, filenames, do_replace, directory) ==
    LET existing_count == count_existing_filenames(tb, filenames)
        has_none == existing_count = 0
        collect_all == has_none \/ do_replace
    IN  IF existing_count = Len(filenames) /\ ~do_replace THEN <<>>
        ELSE Paths(directory,
                   SelectSeq(filenames,
                             LAMBDA f : collect_all \/ ~has_filename(tb, f)))

\* the keys of dict(...) over the paths: every path once, where it came first
RECURSIVE DictKeys(_)
DictKeys(paths) ==
    IF paths = <<>> THEN <<>>
    ELSE <<Head(paths)>>
            \o SelectSeq(DictKeys(Tail(paths)), LAMBDA x : x # Head(paths))

\* _read_data_and_enter_to_db: the entries made of the data of the images
\* (data: what meterelf.get_meter_values reads from each file)
ReadEntries(paths, data) ==
    [i \in 1..Len(DictKeys(paths)) |->
        Entry(Basename(DictKeys(paths)[i]), data[Basename(DictKeys(paths)[i])])]

\* What the processor of the call o does with a block on the table tb: the
\* table after it, the rows it inserted, whether _insert_entries was called
\* by process_block, and the paths _get_files_to_read yielded.
RunProcessor(o, tb, block, data) ==
    CASE o.call = "insert_or_update_entries" ->
            [table |-> insert_entries(tb, OrElseEmpty(process_block(tb, block))),
             inserted |-> OrElseEmpty(process_block(tb, block)),
             yielded |-> <<>>]
      [] o.call = "process_new_images" ->
            [table |-> insert_entries(tb,
                          ReadEntries(get_files_to_read(tb, block, o.do_replace,
                                                        Directory), data)),
             inserted |-> ReadEntries(get_files_to_read(tb, block, o.do_replace,
                                                        Directory), data),
             yielded |-> get_files_to_read(tb, block, o.do_replace, Directory)]
      [] o.call = "process_in_blocks" ->
            [table |-> tb, inserted |-> <<>>, yielded |-> <<>>]

\* the frame of process_in_blocks(items, processor, block_size): items are the
\* items taken from the iterable so far, before is the table at the call
Frame(call, block_size, do_replace) ==
    [call |-> call, block_size |-> block_size, do_replace |-> do_replace,
     items |-> <<>>, item_list |-> <<>>, before |-> table, returned |-> FALSE]
InProgress == op # NoCall /\ ~op.returned
\* what the iterable of the call yields
ItemsOf(call) == IF call = "insert_or_update_entries" THEN Entries ELSE Filenames
\* what the images read by the processor of the call may hold
DataOf(call) ==
    IF call = "process_new_images" THEN [Filenames -> ImageData]
    ELSE {[f \in Filenames |-> StoredData]}

\* mutant: > in place of >=
block_is_full_above(item_list, block_size) == Len(item_list) > block_size
\* len(item_list) >= block_size
block_is_full(item_list, block_size) == Len(item_list) >= block_size

\* the record of a call of the processor
ProcessorCall(block, r) ==
    [block |-> block, table |-> table, inserted |-> r.inserted,
     yielded |-> r.yielded]

pipevars == <<pc, tzoffset, profile, gvars, srcvars, amendvars, groupvars,
              gapvars, cumvars, probe>>

\* value_db.insert_or_update_entries(entries) is called
InsertOrUpdateEntries ==
    /\ op = NoCall
    /\ op' = Frame("insert_or_update_entries", DefaultBlockSize, FALSE)
    /\ UNCHANGED <<table, calls, pipevars>>

\* process_in_blocks(images, processor.process_new_images) is called for the
\* images of a directory: by collect_data_of_new_images, or with do_replace
\* by recollect_data_of_images
ProcessNewImages(do_replace) ==
    /\ op = NoCall
    /\ op' = Frame("process_new_images", DefaultBlockSize, do_replace)
    /\ UNCHANGED <<table, calls, pipevars>>

\* process_in_blocks(items, processor, block_size) is called with a
\* processor that leaves the database alone
ProcessInBlocks(block_size) ==
    /\ op = NoCall
    /\ op' = Frame("process_in_blocks", block_size, FALSE)
    /\ UNCHANGED <<table, calls, pipevars>>

\* one iteration of `for item in items`
NextItem ==
    /\ InProgress
    /\ Len(op.items) < MaxItems
    /\ \E item \in ItemsOf(op.call), data \in DataOf(op.call) :
          IF block_is_full(Append(op.item_list, item), op.block_size)
          THEN /\ table' = RunProcessor(op, table, Append(op.item_list, item),
                                        data).table
               /\ calls' = Append(calls,
                     ProcessorCall(Append(op.item_list, item),
                          RunProcessor(op, table, Append(op.item_list, item), data)))
               /\ op' = [op EXCEPT !.items = Append(@, item), !.item_list = <<>>]
          ELSE /\ op' = [op EXCEPT !.items = Append(@, item),
                                   !.item_list = Append(@, item)]
               /\ UNCHANGED <<table, calls>>
    /\ UNCHANGED pipevars

\* the iterable is exhausted: `if item_list: processor(item_list)`, return
Exhausted ==
    /\ InProgress
    /\ \E data \in DataOf(op.call) :
          IF op.item_list # <<>>
          THEN /\ table' = RunProcessor(op, table, op.item_list, data).table
               /\ calls' = Append(calls,
                     ProcessorCall(op.item_list,
                          RunProcessor(op, table, op.item_list, data)))
          ELSE UNCHANGED <<table, calls>>
    /\ op' = [op EXCEPT !.returned = TRUE]
    /\ UNCHANGED pipevars

\* a database with some of the file names stored, and no call yet
InitDb ==
    /\ pc = "db"
    /\ profile = "db"
    /\ resolution = Unset /\ amend_values = FALSE /\ zeros_per_cumulating = 0
    /\ truncate_timestamp = Unset /\ dt_format = Unset
    /\ litres_per_bar = 0 /\ step = 0
    /\ InitPipeline
    /\ probe = None
    /\ table \in Tables /\ op = NoCall /\ calls = <<>>

NextDb ==
    \/ InsertOrUpdateEntries
    \/ \E do_replace \in BOOLEAN : ProcessNewImages(do_replace)
    \/ \E block_size \in 1..MaxBlockSize : ProcessInBlocks(block_size)
    \/ NextItem
    \/ Exhausted

SpecDb == InitDb /\ [][NextDb]_vars

\* ===================================================================== claims
\* the buckets among the elements emitted so far, as positions of out
BucketIndexes == {i \in 1..Len(out) : ~IsGap(out[i])}
GapIndexes == {i \in 1..Len(out) : IsGap(out[i])}
\* consecutively emitted buckets: positions i < j of out with only gaps between
ConsecutiveBuckets ==
    {p \in BucketIndexes \X BucketIndexes :
        /\ p[1] < p[2]
        /\ \A k \in (p[1] + 1)..(p[2] - 1) : IsGap(out[k])}

RECURSIVE Flatten(_)
Flatten(seqs) == IF seqs = <<>> THEN <<>> ELSE Head(seqs) \o Flatten(Tail(seqs))
RECURSIVE SumOver(_, _)
SumOver(f, S) ==
    IF S = {} THEN 0
    ELSE LET x == CHOOSE y \in S : TRUE IN f[x] + SumOver(f, S \ {x})

\* every bucket that has left the bucketing stage, wherever it is now
EmittedBuckets ==
    {grouped[i] : i \in 1..Len(grouped)}

\* C1: every emitted bucket's sum is the sum of the dfv of exactly the values
\* merged into it (None counted as 0), its source_points their number, and
\* every one of them belongs to the bucket's group.
C1_BucketSum ==
    /\ \A e \in EmittedBuckets :
          /\ e.sum = SumDfv(e.members)
          /\ e.source_points = Len(e.members)
          /\ \A k \in 1..Len(e.members) :
                get_group(Attributes, e.members[k].t, tzoffset) = e.group_id
    /\ \A i \in BucketIndexes :
          /\ out[i].sum = SumDfv(out[i].members)
          /\ out[i].source_points = Len(out[i].members)

C1_Witness ==
    \E e \in EmittedBuckets :
       /\ Len(e.members) >= 2
       /\ \E k \in 1..Len(e.members) : e.members[k].dfv = None
       /\ e.sum > 0

\* C2: with amend_values disabled, when the stream has ended every input sample
\* is a member of exactly one emitted bucket, in input order, and the
\* source_points of the emitted buckets add up to the number of samples.
C2_PartitionComplete ==
    (pc = "done" /\ ~amend_values) =>
        /\ Flatten([i \in 1..Len(grouped) |-> grouped[i].members]) = input
        /\ SumOver([i \in BucketIndexes |-> out[i].source_points], BucketIndexes)
              = Len(input)
        /\ Cardinality(BucketIndexes) = Len(grouped)

C2_Witness ==
    /\ pc = "done" /\ ~amend_values
    /\ Len(input) >= 3
    /\ Len(grouped) = 2
    /\ Len(grouped[2].members) = 2

\* the original wording of C3: a gap is emitted between consecutive buckets
\* A and B iff some bucket boundary lies strictly between A.max_t and B.min_t
C3_GapIffBoundaryBetween ==
    \A p \in ConsecutiveBuckets :
       LET A == out[p[1]]
           B == out[p[2]]
       IN  (p[2] > p[1] + 1) <=>
              (get_time_steps_between(Attributes, A.max_t, B.min_t, tzoffset) # <<>>)

\* C3 (amended): a gap is emitted between consecutive buckets A and B iff the
\* first boundary after A.max_t lies strictly before the start of B's period,
\* and the gap's duration is exactly B.min_t - A.max_t.
C3_GapIffPeriodSkipped ==
    \A p \in ConsecutiveBuckets :
       LET A == out[p[1]]
           B == out[p[2]]
       IN  /\ (p[2] > p[1] + 1) <=>
                 (step_timestamp(Attributes, A.max_t, tzoffset)
                     < Truncate(Attributes, B.min_t, tzoffset))
           /\ \A k \in (p[1] + 1)..(p[2] - 1) : out[k].gap = B.min_t - A.max_t

C3_Witness ==
    \E p \in ConsecutiveBuckets, q \in ConsecutiveBuckets :
       /\ p[2] = p[1] + 2
       /\ q[2] = q[1] + 1
       /\ out[q[2]].min_t > step_timestamp(Attributes, out[q[1]].max_t, tzoffset)

\* C4: no gap between buckets of adjacent periods; exactly one gap, right
\* after A and right before B, when a whole period without samples separates
\* them.
C4_NoGapBetweenAdjacent ==
    \A p \in ConsecutiveBuckets :
       LET A == out[p[1]]
           B == out[p[2]]
           after_a == step_timestamp(Attributes, A.max_t, tzoffset)
           start_b == Truncate(Attributes, B.min_t, tzoffset)
       IN  /\ after_a = start_b => p[2] = p[1] + 1
           /\ after_a < start_b => p[2] = p[1] + 2 /\ IsGap(out[p[1] + 1])

C4_Witness ==
    \E p \in ConsecutiveBuckets, q \in ConsecutiveBuckets :
       /\ step_timestamp(Attributes, out[p[1]].max_t, tzoffset)
             = Truncate(Attributes, out[p[2]].min_t, tzoffset)
       /\ p[2] = p[1] + 1
       /\ step_timestamp(Attributes, out[q[1]].max_t, tzoffset)
             < Truncate(Attributes, out[q[2]].min_t, tzoffset)
       /\ q[2] = q[1] + 2

NonNegativeInput ==
    \A i \in 1..Len(input) : input[i].dfv = None \/ Get(input[i].dfv) >= 0

\* the step being taken processes a big gap, or a zero-sum bucket that brings
\* the zero streak to the threshold or beyond
ResetStep ==
    /\ q3 # <<>>
    /\ LET pair == Head(q3)
       IN  \/ pair.gap # None /\ IsBigGap(Get(pair.gap))
           \/ /\ pair.entry # None
              /\ Get(pair.entry).sum = 0
              /\ zeros_in_row' >= zeros_per_cumulating

\* the original wording of C6's first part: cumulative_since_reset >= 0 in
\* every state, whatever the sign of the deltas
C6_CumulativeNeverNegative ==
    /\ cumulative_since_0 >= 0
    /\ \A i \in BucketIndexes : out[i].cum >= 0

\* C6 (amended): while every delta of the input is None or >= 0,
\* cumulative_since_reset is >= 0 in every state and in every emitted bucket,
\* and it drops from a nonzero value to 0 only in a step that processes a big
\* gap or a zero-sum bucket that brings the zero streak to the threshold.
C6_ResetMonotonicity ==
    /\ [](NonNegativeInput =>
             /\ cumulative_since_0 >= 0
             /\ \A i \in BucketIndexes : out[i].cum >= 0)
    /\ [][(NonNegativeInput' /\ cumulative_since_0 # 0 /\ cumulative_since_0' = 0)
             => ResetStep]_vars

C6_Witness ==
    /\ NonNegativeInput
    /\ \E p \in ConsecutiveBuckets :
          /\ out[p[1]].cum > 0
          /\ out[p[2]].cum = 0
          /\ out[p[2]].sum = 0
          /\ p[2] = p[1] + 1

\* the step being taken processes a zero-sum bucket that follows a
\* nonzero-sum bucket, at a resolution whose threshold is 1
ZeroAfterNonzeroStep ==
    /\ zeros_per_cumulating = 1
    /\ q3 # <<>> /\ Head(q3).entry # None /\ Get(Head(q3).entry).sum = 0
    /\ Len(out') = Len(out) + 1
    /\ \E i \in BucketIndexes :
          /\ out[i].sum # 0
          /\ \A k \in (i + 1)..Len(out) : IsGap(out[k])

C9_OutputOrdering ==
    /\ \A i \in BucketIndexes : out[i].min_t <= out[i].max_t
    /\ \A p \in ConsecutiveBuckets : out[p[1]].max_t <= out[p[2]].min_t
    /\ \A k \in GapIndexes :
          /\ k > 1 /\ ~IsGap(out[k - 1])
          /\ IF k < Len(out)
             THEN /\ ~IsGap(out[k + 1])
                  /\ out[k].gap = out[k + 1].min_t - out[k - 1].max_t
             ELSE /\ q3 # <<>> /\ Head(q3).entry # None
                  /\ out[k].gap = Get(Head(q3).entry).min_t - out[k - 1].max_t

C9_Witness ==
    /\ amend_values
    /\ events # <<>>
    /\ \E k \in GapIndexes :
          /\ k < Len(out)
          /\ out[k + 1].synthetic_count > 0
          /\ out[k - 1].max_t < out[k + 1].min_t

\* C10: an unrecognized resolution name ends the program with an error before
\* any sample is pulled or any element produced, and the gatherer never holds
\* the unrecognized name together with a truncation rule, format or
\* threshold.
C10_UnknownResolutionRejected ==
    /\ resolution \notin Resolutions \cup {Unset} =>
          pc = "ValueError" /\ input = <<>> /\ out = <<>>
    /\ ~(/\ resolution \notin Resolutions \cup {Unset}
         /\ \/ truncate_timestamp # Unset
            \/ dt_format # Unset
            \/ zeros_per_cumulating # 0)

\* C7: at every resolution truncating a truncated instant changes nothing, and
\* the truncated instant has the group key of the instant.
C7_IdempotentTruncation ==
    \A p \in probe :
       p.truncated # None =>
          /\ p.retruncated = p.truncated
          /\ p.group_of_truncated = p.group
          /\ Get(p.truncated) <= p.t

C7_Witness ==
    \E p \in probe :
       /\ p.truncated # None
       /\ Get(p.truncated) < p.t
       /\ resolution = "week"
       /\ tzoffset # 0
       /\ p.n = 3

RECURSIVE SumDt(_)
SumDt(values) ==
    IF values = <<>> THEN 0
    ELSE OrElse(Head(values).dt, 0) + SumDt(Tail(values))

\* C11: whatever samples carry a null dfv, dt or event_number, and with
\* amend_values disabled or enabled, the pipeline never ends with an exception
\* raised on a null field, and a bucket counts a null dfv as 0 and a null dt as
\* a zero duration.
C11_NullSafety ==
    /\ pc # "TypeError"
    /\ \A e \in EmittedBuckets :
          /\ e.sum = SumDfv(e.members)
          /\ e.sum_t = SumDt(e.members)

\* the calendar day of a bucket: entry.min_t.strftime('%Y-%m-%d')
DayOf(e) == Strftime("%Y-%m-%d", e.min_t, tzoffset)
\* the buckets emitted up to position i that are on the calendar day of out[i]
SameDayUpTo(i) == {k \in BucketIndexes : k <= i /\ DayOf(out[k]) = DayOf(out[i])}

\* C12: every emitted bucket's spp is the sum of the sums of the buckets emitted
\* so far on its calendar day, the bucket itself included.
C12_DaySum ==
    \A i \in BucketIndexes :
       out[i].spp = SumOver([k \in SameDayUpTo(i) |-> out[k].sum], SameDayUpTo(i))

\* iteration j of the cumulative pass set a nonzero cumulative_since_0 to 0
\* (`cumulative_since_0 = 0.0` after a big gap or a zero streak)
IsReset(j) ==
    LET p == passes[j]
        is_big_gap == p.pair.gap # None /\ IsBigGap(Get(p.pair.gap))
        zero_entry == p.pair.entry # None /\ Get(p.pair.entry).sum = 0
    IN  /\ is_big_gap \/ (zero_entry /\ p.after.zeros_in_row >= zeros_per_cumulating)
        /\ Accumulate(p.before, p.pair).cumulative_since_0 # 0
        /\ p.after.cumulative_since_0 = 0
\* the position in out of the first bucket of the calendar day of out[i]
FirstOfDay(i) == CHOOSE k \in SameDayUpTo(i) : \A m \in SameDayUpTo(i) : k <= m

\* C13: every emitted bucket's zpp is 1 plus the number of resets of
\* cumulative_since_0 since the first bucket of its calendar day, whether a big
\* gap or a zero streak caused them, and it is never less than 1.
C13_DayResetCount ==
    \A i \in BucketIndexes :
       /\ out[i].zpp >= 1
       /\ out[i].zpp =
             1 + Cardinality({j \in (FirstOfDay(i) + 1)..i : IsReset(j)})

\* every value _get_grouped_data has received or is about to receive, in the
\* order in which get_values() yielded them
Yielded ==
    Flatten([i \in 1..Len(grouped) |-> grouped[i].members])
        \o (IF entry = None THEN <<>> ELSE Get(entry).members)
        \o (IF amend_values THEN q1 ELSE q0)

\* ts are exactly the bucket boundaries strictly between the instants a and b,
\* in increasing order: each is the start of a period, the second before it
\* belongs to the period of the boundary before it (or to a's period), and
\* the last second before b belongs to the last one's period
BoundariesBetween(ts, a, b) ==
    /\ \A k \in 1..Len(ts) :
          /\ a < ts[k] /\ ts[k] < b
          /\ Truncate(Attributes, ts[k], tzoffset) = ts[k]
          /\ Truncate(Attributes, ts[k] - Second, tzoffset)
                = IF k = 1 THEN Truncate(Attributes, a, tzoffset) ELSE ts[k - 1]
    /\ Truncate(Attributes, b - Second, tzoffset)
          = IF ts = <<>> THEN Truncate(Attributes, a, tzoffset) ELSE ts[Len(ts)]

\* the synthetic values of the interpolation event ev stand in the stream
\* right after the value before the triggering one, which itself is absent
InPlaceOfTrigger(ev) ==
    /\ \A p \in 1..Len(Yielded) : Yielded[p] # ev.trigger
    /\ \E p \in 1..Len(Yielded) :
          /\ Yielded[p] = ev.prev
          /\ p + Len(ev.synth) <= Len(Yielded)
          /\ SubSeq(Yielded, p + 1, p + Len(ev.synth)) = ev.synth

Consumed == SubSeq(input, 1, Len(input) - Len(q0))
\* the synthesis conditions held when the event ev was triggered
TriggerConditions(ev) ==
    /\ ev.trigger # input[1]
    /\ Get(ev.trigger.dfv) > UnitsPerLitre \div 10
    /\ ev.prev.dfv # None /\ Get(ev.prev.dfv) > 0
    /\ ev.steps # <<>>
    /\ BoundariesBetween(ev.steps, ev.prev.t, ev.trigger.t)

\* C20: with amend_values enabled every real sample taken is emitted unchanged
\* unless it triggered an interpolation, an interpolation is triggered only by
\* a sample with dfv > 0.1 whose predecessor in the emitted stream has a
\* delta > 0 and with a boundary between the two, and every synthetic value
\* emitted belongs to such an event.
C20_SynthesisTrigger ==
    amend_values =>
       /\ \A i \in 1..Len(Consumed) :
             \/ \E p \in 1..Len(Yielded) : Yielded[p] = Consumed[i]
             \/ \E k \in 1..Len(events) : events[k].trigger = Consumed[i]
       /\ \A k \in 1..Len(events) : TriggerConditions(events[k])
       /\ \A p \in 1..Len(Yielded) :
             Yielded[p].synthetic =>
                \E k \in 1..Len(events) :
                   \E m \in 1..Len(events[k].synth) :
                      events[k].synth[m] = Yielded[p]

\* what iteration j of the cumulative pass processed
IsNonzeroBucket(j) ==
    passes[j].pair.entry # None /\ Get(passes[j].pair.entry).sum # 0
IsZeroBucket(j) ==
    passes[j].pair.entry # None /\ Get(passes[j].pair.entry).sum = 0
IsSmallGap(j) ==
    passes[j].pair.gap # None /\ ~IsBigGap(Get(passes[j].pair.gap))
IsBigGapStep(j) ==
    passes[j].pair.gap # None /\ IsBigGap(Get(passes[j].pair.gap))
\* the locals of iteration j after the zero streak was counted (before the
\* day's counters are looked at)
CountedAt(j) == Counted(passes[j].before, passes[j].pair, zeros_per_cumulating)
\* iteration j incremented zeroings_per_period
IsIncrement(j) ==
    CountedAt(j).zeroings_per_period = passes[j].before.zeroings_per_period + 1

\* C15: the zero streak goes back to 0 only in an iteration that processes a
\* bucket with a nonzero sum, and a gap shorter than 30 s between two zero-sum
\* buckets leaves it as it was.
C15_StreakResetOnlyOnFlow ==
    \A j \in 1..Len(passes) :
       /\ (passes[j].before.zeros_in_row # 0 /\ passes[j].after.zeros_in_row = 0)
              => IsNonzeroBucket(j)
       /\ (IsSmallGap(j) /\ j > 1 /\ IsZeroBucket(j - 1))
              => passes[j].after.zeros_in_row = passes[j].before.zeros_in_row

\* C16: between two iterations that increment the day reset count there is a
\* bucket with a nonzero sum (one count per zero streak); the increment comes
\* in the iteration in which the streak equals the threshold, and from that
\* iteration to the end of the streak cumulative_since_0 is 0 after every
\* iteration.
C16_OneCountPerStreak ==
    \A i \in 1..Len(passes) :
       IsIncrement(i) =>
          /\ CountedAt(i).zeros_in_row = zeros_per_cumulating
          /\ \A j \in i..Len(passes) :
                (\A k \in (i + 1)..j : ~IsNonzeroBucket(k)) =>
                   /\ passes[j].after.cumulative_since_0 = 0
                   /\ j > i => ~IsIncrement(j)

\* C17: an iteration that processes a gap of 30 s or more leaves
\* cumulative_since_0 at 0 whatever the zero streak, the bucket emitted after
\* it has cum equal to its own sum, and an iteration that processes a shorter
\* gap leaves cumulative_since_0 as it was.
C17_BigGapResets ==
    \A j \in 1..Len(passes) :
       /\ IsBigGapStep(j) =>
             /\ passes[j].after.cumulative_since_0 = 0
             /\ j < Len(out) => out[j + 1].cum = out[j + 1].sum
       /\ IsSmallGap(j) =>
             passes[j].after.cumulative_since_0 = passes[j].before.cumulative_since_0

C17_Witness ==
    \E i \in 1..Len(passes), j \in 1..Len(passes) :
       /\ IsBigGapStep(i)
       /\ passes[i].before.cumulative_since_0 > 0
       /\ passes[i].after.zeros_in_row < zeros_per_cumulating
       /\ i < Len(out) /\ out[i + 1].cum > 0
       /\ IsSmallGap(j)
       /\ passes[j].after.cumulative_since_0 > 0

\* the buckets among the pairs the cumulative pass has taken or is about to
\* take, in order
RECURSIVE EntriesOf(_)
EntriesOf(pairs) ==
    IF pairs = <<>> THEN <<>>
    ELSE (IF Head(pairs).entry = None THEN <<>> ELSE <<Get(Head(pairs).entry)>>)
            \o EntriesOf(Tail(pairs))

\* C18: the cumulative pass emits one element per pair it takes, in order: a
\* gap as the duration it received, leaving the day's sum and the current day
\* as they were, a bucket with every GroupedData field unchanged plus cum, spp
\* and zpp; no bucket is lost or reordered on the way, and an element once
\* emitted never changes.
C18_PassThrough ==
    /\ [](/\ Len(out) = Len(passes)
          /\ EntriesOf([k \in 1..Len(passes) |-> passes[k].pair] \o q3)
                = SubSeq(grouped, 1, Len(grouped) - Len(q2))
          /\ \A k \in 1..Len(passes) :
                LET p == passes[k]
                IN  IF p.pair.gap # None
                    THEN /\ out[k] = GapElement(Get(p.pair.gap))
                         /\ p.after.sum_per_period = p.before.sum_per_period
                         /\ p.after.last_period = p.before.last_period
                    ELSE /\ DOMAIN out[k] =
                               DOMAIN Get(p.pair.entry) \cup {"cum", "spp", "zpp"}
                         /\ \A f \in DOMAIN Get(p.pair.entry) :
                               out[k][f] = Get(p.pair.entry)[f]
                         /\ out[k].cum = p.after.cumulative_since_0
                         /\ out[k].spp = p.after.sum_per_period
                         /\ out[k].zpp = p.after.zeroings_per_period)
    /\ [][/\ Len(out') >= Len(out)
          /\ \A k \in 1..Len(out) : out'[k] = out[k]]_vars

C18_Witness ==
    /\ pc = "done"
    /\ Len(out) >= 5
    /\ \E j \in 1..Len(passes) :
          /\ passes[j].pair.gap # None
          /\ passes[j].before.sum_per_period > 0
          /\ j < Len(out) /\ out[j + 1].spp > out[j + 1].sum

\* the value v was merged into the bucket e
IsMember(v, e) == \E m \in 1..Len(e.members) : e.members[m] = v

\* C21: for every interpolation event with at most 10 boundaries, the emitted
\* elements from the bucket that holds the previous value to the bucket that
\* holds the event's last synthetic value contain no gap: they are one bucket
\* per boundary, each holding a synthetic value.
C21_SynthesisClosesGap ==
    \A x \in 1..Len(events) :
       LET ev == events[x]
           n == Len(ev.steps)
       IN  n <= MAX_SYNTHETIC_VALUES_TO_INSERT =>
              \A i \in BucketIndexes, j \in BucketIndexes :
                 (/\ IsMember(ev.prev, out[i])
                  /\ IsMember(ev.synth[Len(ev.synth)], out[j])) =>
                      /\ j = i + n
                      /\ \A k \in (i + 1)..j :
                            /\ ~IsGap(out[k])
                            /\ out[k].synthetic_count > 0

C21_Witness ==
    /\ pc = "done"
    /\ resolution = "week"
    /\ \E x \in 1..Len(events), i \in BucketIndexes :
          /\ Len(events[x].steps) = 3
          /\ IsMember(events[x].prev, out[i])
          /\ i + 3 <= Len(out)
          /\ IsMember(events[x].synth[3], out[i + 3])
          /\ events[x].trigger.t > events[x].synth[3].t + Hour

\* ---------------------------------------------------------------- C22
\* the non-null, nonzero event numbers of the samples merged into a bucket
NonzeroEventNumbers(e) ==
    {Get(e.members[m].event_number) :
        m \in {k \in 1..Len(e.members) : /\ e.members[k].event_number # None
                                        /\ Get(e.members[k].event_number) # 0}}
SetMax(S) == CHOOSE x \in S : \A y \in S : y <= x

\* C22: every bucket the bucketing stage emits has as max_event_num the
\* highest event number of its samples, and null exactly when none of its
\* samples has a non-null, nonzero event number: whether it holds one sample
\* or several.
C22_MaxEventNum ==
    \A i \in 1..Len(grouped) :
       grouped[i].max_event_num =
          IF NonzeroEventNumbers(grouped[i]) = {} THEN None
          ELSE Some(SetMax(NonzeroEventNumbers(grouped[i])))

\* ---------------------------------------------------------------- C23
\* the GroupedData object x is seen with the fields it had when the bucketing
\* stage emitted it (or it has not been emitted)
AsEmitted(x) ==
    \A i \in 1..Len(grouped) : grouped[i].oid = x.oid => grouped[i] = x
\* the GroupedData fields of an element of the output
GroupedFields(c) == [f \in DOMAIN c \ {"cum", "spp", "zpp"} |-> c[f]]

\* C23: a bucket once emitted by the bucketing stage keeps its fields: every
\* bucket is emitted once, as an object of its own; the open bucket, the only
\* one merging writes to, is not an emitted object unless it still has the
\* fields it was emitted with; the gap detector's previous bucket, the
\* buckets in flight between the stages and the buckets of the output carry
\* the fields their object was emitted with.
C23_EmittedImmutable ==
    /\ \A i, j \in 1..Len(grouped) : grouped[i].oid = grouped[j].oid => i = j
    /\ \A x \in entry : AsEmitted(x)
    /\ \A x \in last_entry : AsEmitted(x) /\ \E i \in 1..Len(grouped) : grouped[i].oid = x.oid
    /\ \A k \in 1..Len(q2) : AsEmitted(q2[k])
    /\ \A k \in 1..Len(q3) : \A x \in q3[k].entry : AsEmitted(x)
    /\ \A i \in BucketIndexes :
          /\ AsEmitted(GroupedFields(out[i]))
          /\ \E g \in 1..Len(grouped) : grouped[g].oid = out[i].oid

\* a bucket has been emitted, a sample has then been merged into the bucket
\* opened after it, and the gap between the two has been measured from the
\* first one's max_t
C23_Witness ==
    /\ pc = "done"
    /\ Len(grouped) = 2
    /\ Len(grouped[1].members) = 1
    /\ Len(grouped[2].members) = 2
    /\ Len(out) = 3 /\ IsGap(out[2])
    /\ out[2].gap = grouped[2].min_t - grouped[1].max_t
    /\ \E x \in last_entry : x = grouped[2]

\* ---------------------------------------------------------------- C24
\* the lines the claim gives an element of the output: "" an empty line,
\* "line" a non-empty one
LinesOf(x) ==
    IF IsGap(x) /\ x.gap >= LONG_GAP_SECONDS * Second THEN <<"", "line", "">>
    ELSE <<"line">>
\* the lines of the output's elements 1..n
LinesUpTo(n) == Flatten([i \in 1..n |-> LinesOf(out[i])])
\* the line at position k is the line of the element x
IsLineOf(k, x) ==
    IF IsGap(x) THEN lines[k] = GapLine(x.gap)
    ELSE /\ lines[k][1] = "ds: "
         /\ lines[k][2] = x.min_t /\ lines[k][3] = x.max_t /\ lines[k][5] = x.sum

\* C24: get_visualization yields one non-empty line for every bucket and one
\* duration line for every gap, an empty line before and after the duration
\* line exactly when the gap is 30 s or longer, in the order of the buckets
\* and gaps.
C24_LinesPerElement ==
    /\ Len(lines) = Len(LinesUpTo(Len(out)))
    /\ \A k \in 1..Len(lines) : (lines[k] = <<>>) <=> (LinesUpTo(Len(out))[k] = "")
    /\ \A i \in 1..Len(out) :
          IsLineOf(Len(LinesUpTo(i)) - (IF Len(LinesOf(out[i])) = 3 THEN 1 ELSE 0),
                   out[i])

\* ---------------------------------------------------------------- C25
\* b is floor(num / den) full blocks and then, unless the fraction is 0, one
\* more character
FullBlocksThenOne(b, num, den) ==
    /\ Len(b) = num \div den + (IF num % den = 0 THEN 0 ELSE 1)
    /\ \A i \in 1..(num \div den) : b[i] = BAR_SYMBOL_FULL
\* the character after the full blocks is the table's entry k + 1 for the
\* seventh k / 7 nearest to the fraction
NearestSeventh(b, num, den) ==
    num % den # 0 =>
       \E k \in 0..(Len(BAR_SYMBOLS) - 1) :
          /\ b[Len(b)] = BAR_SYMBOLS[k + 1]
          /\ 2 * Abs((Len(BAR_SYMBOLS) - 1) * (num % den) - k * den) <= den
\* the character after the full blocks is the table's entry k, the k / 8
\* block, for the eighth k / 8 nearest to the fraction (8 / 8 is the full
\* block; for 0 / 8 nothing or the thinnest block is accepted)
NearestEighth(b, num, den) ==
    num % den # 0 =>
       \E k \in 0..Len(BAR_SYMBOLS) :
          /\ b[Len(b)] = BAR_SYMBOLS[IF k = 0 THEN 1 ELSE k]
          /\ 2 * Abs(Len(BAR_SYMBOLS) * (num % den) - k * den) <= den
NoERR(b) == \A i \in 1..Len(b) : b[i] # "ERR"
\* the bar of a negative value is '-' and the bar of the value negated
MinusThen(b, P(_, _, _), num, den) ==
    IF num < 0 THEN b # <<>> /\ b[1] = "-" /\ P(Tail(b), 0 - num, den)
    ELSE P(b, num, den)
BarOfSevenths(b, num, den) ==
    FullBlocksThenOne(b, num, den) /\ NearestSeventh(b, num, den) /\ NoERR(b)
BarOfEighths(b, num, den) ==
    FullBlocksThenOne(b, num, den) /\ NearestEighth(b, num, den) /\ NoERR(b)

\* C25 (as stated): make_bar(value) is floor(value) full blocks followed by at
\* most one character of the 8-entry table, the one for the fraction rounded
\* to the nearest eighth, none when the fraction is 0; it never contains
\* 'ERR'; a negative value gives '-' and the bar of the value negated.
C25_BarNearestEighth ==
    \A p \in probe : \A b \in p.bar : MinusThen(b, BarOfEighths, p.num, p.den)

\* C25 (amended): the character after the full blocks is the table's entry
\* at 0-based index k for the seventh k / 7 nearest to the fraction.
C25_BarNearestSeventh ==
    \A p \in probe : \A b \in p.bar : MinusThen(b, BarOfSevenths, p.num, p.den)

\* the bar of -37/14 has been made: '-', two full blocks and the entry at
\* index 4 for the fraction 9/14 (4.5 sevenths)
C25_Witness ==
    \E p \in probe :
       /\ p.num = 0 - 37 /\ p.den = 14
       /\ p.bar = Some(<<"-", BAR_SYMBOL_FULL, BAR_SYMBOL_FULL, BAR_SYMBOLS[5]>>)

\* ---------------------------------------------------------------- C26
\* the program has ended: every generator is exhausted, or an exception has
\* left the pipeline
Ended == pc \in {"done", "TypeError", "AssertionError", "ZeroDivisionError"}
\* the sum of bucket.sum over the buckets of the output
EmittedVolume == SumOver([i \in BucketIndexes |-> out[i].sum], BucketIndexes)

\* C26: when the program has ended, the sums of the emitted buckets add up to
\* the sum of the dfv of all input samples (None as 0), within 0.0001 for
\* every interpolation event, with amend_values disabled or enabled.
C26_VolumeConservation ==
    Ended =>
       Abs(EmittedVolume - SumDfv(input)) <= Len(events) * (UnitsPerLitre \div 10000)

\* ---------------------------------------------------------------- C27
\* s is the first instant of the month after the month of t, on the wall
\* clock of the timestamps' zone
FirstInstantOfFollowingMonth(s, t) ==
    /\ LocalSeconds(s, tzoffset) % Day = 0
    /\ CivilFromDays(LocalDay(s, tzoffset)).day = 1
    /\ IF CivilFromDays(LocalDay(t, tzoffset)).month = 12
       THEN /\ CivilFromDays(LocalDay(s, tzoffset)).month = 1
            /\ CivilFromDays(LocalDay(s, tzoffset)).year
                  = CivilFromDays(LocalDay(t, tzoffset)).year + 1
       ELSE /\ CivilFromDays(LocalDay(s, tzoffset)).month
                  = CivilFromDays(LocalDay(t, tzoffset)).month + 1
            /\ CivilFromDays(LocalDay(s, tzoffset)).year
                  = CivilFromDays(LocalDay(t, tzoffset)).year

\* C27: at every resolution truncate(t) <= t < step_after(t), at month
\* resolution step_after(t) is the first instant of the following month, and
\* the enumeration of the boundaries between a start and an end comes to an
\* end with strictly increasing boundaries, all after the start and before the
\* end (so no more of them than seconds between the two).
C27_SteppingProgress ==
    \A p \in probe :
       p.steps # None =>
          /\ Truncate(Attributes, p.t, tzoffset) <= p.t
          /\ p.t < Get(p.stepped)
          /\ resolution = "month" => FirstInstantOfFollowingMonth(Get(p.stepped), p.t)
          /\ \A i \in 1..Len(Get(p.steps)) :
                p.t < Get(p.steps)[i] /\ Get(p.steps)[i] < Get(p.end)
          /\ \A i \in 1..(Len(Get(p.steps)) - 1) :
                Get(p.steps)[i] < Get(p.steps)[i + 1]
          /\ Len(Get(p.steps)) <= Get(p.end) - p.t

\* from two seconds before the end of December 2018 the month's step is the
\* beginning of January 2019, and three boundaries lie within the next 90 days
C27_Witness ==
    \E p \in probe :
       /\ resolution = "month" /\ tzoffset # 0
       /\ p.t = StartTime(tzoffset)
       /\ p.stepped = Some(ReplaceTzinfo(DaysFromCivil(2019, 1, 1) * Day, tzoffset))
       /\ p.steps # None /\ Len(Get(p.steps)) = 3
       /\ Get(p.steps)[3] = ReplaceTzinfo(DaysFromCivil(2019, 3, 1) * Day, tzoffset)

\* ---------------------------------------------------------------- C28
\* the data of a row or an entry
DataOfRow(x) == [reading |-> x.reading, error |-> x.error]
\* every file name of the block was stored when the processor took the block
AllStored(c) ==
    \A i \in 1..Len(c.block) : c.block[i].filename \in DOMAIN c.table

\* C28: during and after insert_or_update_entries every file name stored
\* before the call has the reading and error it had; after the call every
\* entry's file name is stored, a file name new to the database with the
\* data of an entry of that name; and a block whose file names are all stored
\* already inserts no row.
C28_NeverOverwrites ==
    op.call = "insert_or_update_entries" =>
       /\ \A f \in DOMAIN op.before :
             f \in DOMAIN table /\ table[f] = op.before[f]
       /\ op.returned =>
             \A i \in 1..Len(op.items) :
                /\ op.items[i].filename \in DOMAIN table
                /\ op.items[i].filename \notin DOMAIN op.before =>
                      \E j \in 1..Len(op.items) :
                         /\ op.items[j].filename = op.items[i].filename
                         /\ table[op.items[i].filename] = DataOfRow(op.items[j])
       /\ \A c \in 1..Len(calls) : AllStored(calls[c]) => calls[c].inserted = <<>>

\* a first block with a stored and a new file name has inserted the new one
\* only, and a second block with the name the first one inserted (and other
\* data) has inserted nothing
C28_Witness ==
    /\ op.call = "insert_or_update_entries" /\ op.returned
    /\ Len(calls) = 2
    /\ calls[1].block[1].filename \in DOMAIN op.before
    /\ calls[1].block[2].filename \notin DOMAIN op.before
    /\ calls[1].inserted = <<calls[1].block[2]>>
    /\ calls[2].block[1].filename = calls[1].block[2].filename
    /\ DataOfRow(calls[2].block[1]) # DataOfRow(calls[1].block[2])
    /\ calls[2].inserted = <<>>

\* ---------------------------------------------------------------- C29
\* the blocks the processor has been called with, one after the other
BlocksPassed == Flatten([c \in 1..Len(calls) |-> calls[c].block])

\* C29: process_in_blocks passes the items to the processor in their order,
\* each once, in blocks that are never empty and hold exactly block_size items,
\* except that the last block may hold fewer; for no items the processor is
\* not called.
C29_Blocks ==
    op # NoCall =>
       /\ BlocksPassed \o (IF op.returned THEN <<>> ELSE op.item_list) = op.items
       /\ \A c \in 1..Len(calls) :
             /\ calls[c].block # <<>>
             /\ Len(calls[c].block) <= op.block_size
             /\ (c < Len(calls) \/ ~op.returned) =>
                   Len(calls[c].block) = op.block_size
       /\ (op.returned /\ op.items = <<>>) => calls = <<>>

\* three items have been passed in a block of two and a block of one
C29_Witness ==
    /\ op.call = "process_in_blocks" /\ op.returned
    /\ op.block_size = 2
    /\ Len(op.items) = 3
    /\ Len(calls) = 2
    /\ calls[1].block = SubSeq(op.items, 1, 2)
    /\ calls[2].block = SubSeq(op.items, 3, 3)

\* ---------------------------------------------------------------- C30
\* C30: for every block, _get_files_to_read yields, in the order of the block,
\* the paths of the file names not stored when the block is taken (none when
\* all are stored, all when none is), and with do_replace the paths of all
\* file names of the block.
C30_FilesToRead ==
    op.call = "process_new_images" =>
       \A c \in 1..Len(calls) :
          calls[c].yielded =
             Paths(Directory,
                   SelectSeq(calls[c].block,
                             LAMBDA f : op.do_replace \/ f \notin DOMAIN calls[c].table))

\* without do_replace, of a block with a stored file name and then a new one
\* only the new one's path has been yielded; its row was inserted, and the
\* next block, the same new file name, yielded nothing
C30_Witness ==
    /\ op.call = "process_new_images" /\ ~op.do_replace /\ op.returned
    /\ Len(calls) = 2
    /\ calls[1].block[1] \in DOMAIN op.before
    /\ calls[1].block[2] \notin DOMAIN op.before
    /\ calls[1].yielded = <<Path(Directory, calls[1].block[2])>>
    /\ calls[2].block = <<calls[1].block[2]>>
    /\ calls[2].yielded = <<>>
====
